---- MODULE Spec2Model ----
(***************************************************************************)
(* FreshLink: the fee calculation, the cart-to-order flow, the cart and    *)
(* order routes with their access checks, and the product search of        *)
(* server/routes.ts and server/storage.ts.                                 *)
(*                                                                         *)
(* Money is held in cents (integers).  An intermediate amount of           *)
(* calculateFees is held in thousandths of a cent ("mills"), which is      *)
(* exact for a 2-decimal subtotal, a 2-decimal delivery fee and the three  *)
(* rate constants.  The code computes in IEEE-754 doubles; a double and    *)
(* the exact decimal value differ by about 1e-16, which changes the result *)
(* of toFixed(2) only where the exact value is a tie (x.xx5): there the    *)
(* double lies just below or not below the tie, and the tables             *)
(* platformFeeBelow, processingFeeBelow and totalBelow record which.       *)
(***************************************************************************)
EXTENDS Integers, Sequences, FiniteSets, TLC

\* ------------------------------------------------------------------ bounds
\* Non-negative subtotals of the fee requests run over 0..MaxSubtotal (cents),
\* plus the two subtotals the specification names.
MaxSubtotal == 120
\* Negative subtotals of the fee requests run over -MaxNegSubtotal..-1 (cents).
MaxNegSubtotal == 12
\* Cart rows ever inserted (the ids randomUUID hands out are 1..MaxCartIds).
MaxCartIds == 2
\* Orders ever created.
MaxOrders == 1
\* The largest quantity of a cart row.
MaxQuantity == 2

\* --------------------------------------------------------------- constants
\* routes.ts:20-22, per mille of the amount; the fixed fee in cents.
PLATFORM_FEE_RATE == 50
STRIPE_FEE_RATE == 29
STRIPE_FIXED_FEE == 30

VARIABLES
    feeReq,     \* the body of the last POST /api/orders/calculate-fees
    feeRes,     \* the response to it
    producers,  \* table producers: id -> row
    products,   \* table products: id -> row
    cart,       \* table cart: a set of rows
    nextCartId, \* the next fresh cart row id
    orders,     \* table orders: a set of rows
    orderItems, \* table order_items: a set of rows
    nextOrderId,\* the next fresh order id
    pc,         \* per user: where the user's POST /api/orders handler stands
    cartItems,  \* per user: the handler's cartItems (routes.ts:373)
    deliveryOption, \* per user: the handler's deliveryOption (routes.ts:369)
    order,      \* per user: the id of the order the handler created (routes.ts:393)
    resp,       \* the response the last step sent (NoResp when it sent none)
    searchReq,  \* the query of the last GET /api/products/search
    searchRes,  \* the response to it
    creator,    \* history: the user whose request created each product
    nextProductId, \* the number of the next product row
    productRes, \* the response of the last product route
    adds,       \* per call slot: where a running storage.addToCart call stands
    paymentIntents, \* the payment intents created at Stripe
    users       \* table users: id -> role and profileCompletion

feeVars == <<feeReq, feeRes>>
searchVars == <<searchReq, searchRes>>
productVars == <<creator, nextProductId, productRes>>
addVars == <<adds>>
paymentVars == <<paymentIntents>>
userVars == <<users>>
catalogVars == <<producers, products>>
cartVars == <<cart, nextCartId>>
orderVars == <<orders, orderItems, nextOrderId>>
handlerVars == <<pc, cartItems, deliveryOption, order>>
vars == <<feeReq, feeRes, producers, products, cart, nextCartId, orders, orderItems,
          nextOrderId, pc, cartItems, deliveryOption, order, resp, searchReq, searchRes,
          creator, nextProductId, productRes, adds, paymentIntents, users>>


\* ------------------------------------------------------------- the store
\* A point column (schema.ts:29, mode xy): x is the longitude and y the latitude,
\* in whole degrees; NullPoint is SQL NULL.
Point(x, y) == [null |-> FALSE, x |-> x, y |-> y]
NullPoint == [null |-> TRUE, x |-> 0, y |-> 0]

\* A nullable text column: a sequence of characters, or SQL NULL.
Text(chars) == [null |-> FALSE, chars |-> chars]
NullText == [null |-> TRUE, chars |-> <<>>]

\* The users whose requests are explored (each is authenticated: a request
\* without a session is answered 401 before any handler code runs).
Users == {"alice", "bob"}

\* The producers rows the database starts with (schema.ts:22-38): alice owns
\* farm1; farm2 belongs to an account that sends no request here; bob owns none.
SeedProducers ==
    [id \in {"farm1", "farm2"} |->
        IF id = "farm1" THEN [userId |-> "alice", location |-> Point(1, 0)]
                        ELSE [userId |-> "dave", location |-> Point(1, 1)]]

\* The users rows the database starts with (schema.ts:11-12): alice has
\* registered her farm, bob is as createUser left him (storage.ts:83).
SeedUsers ==
    [u \in Users |->
        IF u = "alice" THEN [role |-> "producer", profileCompletion |-> 80]
                       ELSE [role |-> "consumer", profileCompletion |-> 20]]

\* The products rows the database starts with (schema.ts:40-55), the price in
\* cents.  Both prices are multiples of 0.25, so Number(price) * quantity and the
\* sums of the reduce at routes.ts:379 are exact doubles.
SeedProducts ==
    [id \in {"p1", "p2"} |->
        IF id = "p1"
        THEN [producerId |-> "farm1", price |-> 125, name |-> <<"K", "a", "l", "e">>,
              description |-> Text(<<"r", "a", "w">>), category |-> "vegetables",
              tags |-> {"organic"}, available |-> TRUE, createdAt |-> 1]
        ELSE [producerId |-> "farm2", price |-> 50, name |-> <<"A", "l", "e">>,
              description |-> NullText, category |-> "beverages",
              tags |-> {"'organic'"}, available |-> TRUE, createdAt |-> 2]]

\* The producer ids a request may name: the stored ones and one that is not.
ProducerIds == (DOMAIN producers) \cup {"farm9"}

\* A query parameter read as a number: absent (or empty), a decimal numeral
\* spelling val, or text that is no numeral, of which Number() is NaN.
Absent == [kind |-> "absent", val |-> 0]
Numeral(n) == [kind |-> "num", val |-> n]
NotANumeral == [kind |-> "nan", val |-> 0]

NoSearchReq == [q |-> <<>>, lat |-> Absent, lng |-> Absent, radius |-> Absent,
                category |-> "", tags |-> <<>>, sent |-> FALSE]
NoSearchRes == [status |-> 0, rows |-> <<>>]

\* The number of storage.addToCart calls that can be running at once.
MaxAdds == 2

AddSlots == 1 .. MaxAdds

\* No call is running in the slot.
NoAdd == [pc |-> "idle", userId |-> "none", productId |-> "none", quantity |-> 0,
          existing |-> {}]

\* No product route has answered yet.
NoProductRes == [route |-> "none", user |-> "none", status |-> 0, productId |-> "none",
                 producer |-> "none", owner |-> "none"]

\* Every catalogue row was created by a request of its producer's user, and the
\* rows are numbered p1, p2, ...
ProductsInit ==
    /\ creator = [id \in DOMAIN products |-> producers[products[id].producerId].userId]
    /\ nextProductId = Cardinality(DOMAIN products) + 1
    /\ productRes = NoProductRes

NoResp == [route |-> "none", user |-> "none", status |-> 0, cartId |-> 0,
           orderId |-> 0, producerId |-> "none", owner |-> "none", data |-> {}]

\* A response: the route and caller it answers, its status, the ids the request
\* named, the owner of the row it named (as stored when the request ran), and
\* the orders whose data its body carries.
Response(route, user, status, cartId, orderId, producerId, owner, data) ==
    [route |-> route, user |-> user, status |-> status, cartId |-> cartId,
     orderId |-> orderId, producerId |-> producerId, owner |-> owner, data |-> data]

StoreInit ==
    /\ producers = SeedProducers
    /\ products = SeedProducts
    /\ cart = {}
    /\ nextCartId = 1
    /\ orders = {}
    /\ orderItems = {}
    /\ nextOrderId = 1
    /\ pc = [u \in Users |-> "idle"]
    /\ cartItems = [u \in Users |-> {}]
    /\ deliveryOption = [u \in Users |-> "none"]
    /\ order = [u \in Users |-> 0]
    /\ resp = NoResp
    /\ adds = [slot \in AddSlots |-> NoAdd]
    /\ paymentIntents = {}
    /\ users = SeedUsers

\* The owner of cart row id, "none" when there is no such row.
cartOwner(id) ==
    IF \E r \in cart : r.id = id
    THEN (CHOOSE r \in cart : r.id = id).userId
    ELSE "none"

\* storage.ts:288-319 getCartItems: the user's cart rows joined with products.
getCartItems(userId) ==
    {[id |-> r.id, productId |-> r.productId, quantity |-> r.quantity,
      price |-> products[r.productId].price] :
        r \in {x \in cart : x.userId = userId /\ x.productId \in DOMAIN products}}

\* storage.ts:347-355 updateCartItem: the table after the UPDATE ... WHERE id.
updateCartItem(id, quantity) ==
    {IF r.id = id THEN [r EXCEPT !.quantity = quantity] ELSE r : r \in cart}

\* storage.ts:357-359 removeFromCart: the table after the DELETE ... WHERE id.
removeFromCart(id) == {r \in cart : r.id # id}

\* storage.ts:361-363 clearCart: the table after DELETE ... WHERE user_id.
clearCart(userId) == {r \in cart : r.userId # userId}

\* routes.ts:281-295 POST /api/cart with storage.ts:321-345 addToCart.
AddToCart(u, productId, quantity) ==
    LET existing == {r \in cart : r.userId = u /\ r.productId = productId}
    IN /\ IF existing # {}
          THEN \E e \in existing :
                /\ e.quantity + quantity <= MaxQuantity
                /\ cart' = (cart \ {e}) \cup
                            {[e EXCEPT !.quantity = e.quantity + quantity]}
                /\ nextCartId' = nextCartId
                /\ resp' = Response("POST /api/cart", u, 200, e.id, 0, "none", u, {})
          ELSE /\ nextCartId <= MaxCartIds
               /\ cart' = cart \cup {[id |-> nextCartId, userId |-> u,
                                      productId |-> productId, quantity |-> quantity]}
               /\ nextCartId' = nextCartId + 1
               /\ resp' = Response("POST /api/cart", u, 200, nextCartId, 0, "none", u, {})
       /\ UNCHANGED <<feeVars, searchVars, productVars, addVars, paymentVars, userVars, catalogVars, orderVars, handlerVars>>

\* storage.ts:321-325: a POST /api/cart handler enters addToCart and selects the
\* user's rows of the product.  Other handlers run before it writes.
AddToCartSelect(slot, u, productId, quantity) ==
    LET existing == {r \in cart : r.userId = u /\ r.productId = productId}
        inserting == {t \in AddSlots : adds[t].pc = "selected" /\ adds[t].existing = {}}
    IN /\ adds[slot].pc = "idle"
       /\ IF existing = {}
          THEN nextCartId + Cardinality(inserting) <= MaxCartIds
          ELSE \A e \in existing : e.quantity + quantity <= MaxQuantity
       /\ adds' = [adds EXCEPT ![slot] =
                      [pc |-> "selected", userId |-> u, productId |-> productId,
                       quantity |-> quantity, existing |-> existing]]
       /\ resp' = NoResp
       /\ UNCHANGED <<feeVars, searchVars, productVars, paymentVars, userVars, catalogVars, cartVars,
                      orderVars, handlerVars>>

\* storage.ts:327-344: the call writes what its select decided: an UPDATE of the
\* row existing[0] to the quantity it read plus the added one, or an INSERT.
AddToCartWrite(slot) ==
    LET a == adds[slot]
    IN /\ a.pc = "selected"
       /\ IF a.existing # {}
          THEN \E e \in a.existing :
                /\ cart' = {IF r.id = e.id
                            THEN [r EXCEPT !.quantity = e.quantity + a.quantity]
                            ELSE r : r \in cart}
                /\ nextCartId' = nextCartId
                /\ resp' = Response("POST /api/cart", a.userId, 200, e.id, 0, "none",
                                    a.userId, {})
          ELSE /\ cart' = cart \cup {[id |-> nextCartId, userId |-> a.userId,
                                      productId |-> a.productId, quantity |-> a.quantity]}
               /\ nextCartId' = nextCartId + 1
               /\ resp' = Response("POST /api/cart", a.userId, 200, nextCartId, 0, "none",
                                   a.userId, {})
       /\ adds' = [adds EXCEPT ![slot] = NoAdd]
       /\ UNCHANGED <<feeVars, searchVars, productVars, paymentVars, userVars, catalogVars, orderVars,
                      handlerVars>>

\* routes.ts:297-307 PATCH /api/cart/:id.
UpdateCartItem(u, id, quantity) ==
    /\ IF \E r \in cart : r.id = id
       THEN /\ cart' = updateCartItem(id, quantity)
            /\ resp' = Response("PATCH /api/cart/:id", u, 200, id, 0, "none",
                                cartOwner(id), {})
       ELSE /\ cart' = cart     \* "Cart item not found" is thrown, and caught
            /\ resp' = Response("PATCH /api/cart/:id", u, 400, id, 0, "none", "none", {})
    /\ UNCHANGED <<feeVars, searchVars, productVars, addVars, paymentVars, userVars, catalogVars, nextCartId, orderVars, handlerVars>>

\* routes.ts:309-318 DELETE /api/cart/:id.
RemoveFromCart(u, id) ==
    /\ cart' = removeFromCart(id)
    /\ resp' = Response("DELETE /api/cart/:id", u, 200, id, 0, "none", cartOwner(id), {})
    /\ UNCHANGED <<feeVars, searchVars, productVars, addVars, paymentVars, userVars, catalogVars, nextCartId, orderVars, handlerVars>>

\* --------------------------------------------------------- fee calculation
\* The delivery options a request body may carry: the three of the table, an
\* unrecognized one, the name of a property every object inherits, and none at
\* all (deliveryOption undefined).
DeliveryOptions == {"pickup", "farmers-market", "home", "drone", "toString", "none"}

\* routes.ts:325-329: the deliveryFees object literal, in cents.
deliveryFees ==
    [o \in {"pickup", "farmers-market", "home"} |->
        CASE o = "pickup" -> 0
          [] o = "farmers-market" -> 199
          [] o = "home" -> 499]

\* routes.ts:325-331: deliveryFees is an object literal, so deliveryFees[key] is a
\* function for the keys it inherits from Object.prototype; the function is
\* truthy and becomes the deliveryFee.
ObjectPrototypeKeys == {"toString"}

\* routes.ts:50-58 with a function as deliveryFee: subtotal + deliveryFee is a
\* string, the total is a string, and total.toFixed(2) throws a TypeError.
calculateFeesThrows(option) == option \in ObjectPrototypeKeys

\* A lookup that charges no delivery fee at all.
deliveryFeeOfFree(option) == 0

\* routes.ts:331: deliveryFees[deliveryOption] || 0, when it is a number.
deliveryFeeOf(option) ==
    IF option \in DOMAIN deliveryFees /\ deliveryFees[option] # 0
    THEN deliveryFees[option]
    ELSE 0

Abs(x) == IF x < 0 THEN -x ELSE x

\* The subtotals (cents) whose double product subtotal * 0.05 is a decimal tie
\* and lies below it in magnitude (IEEE-754 round-to-nearest, |subtotal| <= 2000
\* cents; 5000 and 10000 cents are no ties).
platformFeeBelow(subtotal) ==
    Abs(subtotal) \in {30, 70, 230, 290, 410, 430, 610, 710, 730, 870, 970, 1170,
                       1210, 1470, 1670, 1690, 1890, 1970, 1990}

\* The same for (subtotal + deliveryFee) * 0.029 + 0.30.
processingFeeBelow(subtotal, deliveryFee) ==
    <<subtotal, deliveryFee>> \in
        {<<-999, 499>>, <<-699, 199>>, <<-500, 0>>,
         <<1001, 499>>, <<1301, 199>>, <<1500, 0>>}

\* The same for subtotal + platformFee + processingFee + deliveryFee.
totalBelow(subtotal, deliveryFee) ==
    <<subtotal, deliveryFee>> \in
        {<<-1949, 499>>, <<-1649, 199>>, <<-1500, 0>>, <<-500, 0>>,
         <<351, 199>>, <<1051, 499>>, <<1351, 199>>, <<1500, 0>>}

\* Number(x.toFixed(2)) in cents, x given in mills: the nearest cent to the
\* magnitude, the larger one at a tie unless the double lies below the tie; the
\* sign is put back (toFixed rounds the magnitude).
toFixed2(x, below) ==
    LET a == Abs(x)
        q == a \div 1000
        r == a % 1000
        n == IF r > 500 \/ (r = 500 /\ ~below) THEN q + 1 ELSE q
    IN IF x < 0 THEN -n ELSE n

\* calculateFees with the subtotal left out of the total.
calculateFeesNoSubtotal(subtotal, deliveryFee) ==
    LET platformFee == subtotal * PLATFORM_FEE_RATE
        processingFee == (subtotal + deliveryFee) * STRIPE_FEE_RATE
                            + STRIPE_FIXED_FEE * 1000
        total == platformFee + processingFee + deliveryFee * 1000
    IN [platformFee |-> toFixed2(platformFee, platformFeeBelow(subtotal)),
        processingFee |-> toFixed2(processingFee, processingFeeBelow(subtotal, deliveryFee)),
        total |-> toFixed2(total, FALSE)]

\* calculateFees with the processing rate applied to the subtotal alone.
calculateFeesRateOnSubtotal(subtotal, deliveryFee) ==
    LET platformFee == subtotal * PLATFORM_FEE_RATE
        processingFee == subtotal * STRIPE_FEE_RATE + STRIPE_FIXED_FEE * 1000
        total == subtotal * 1000 + platformFee + processingFee + deliveryFee * 1000
    IN [platformFee |-> toFixed2(platformFee, platformFeeBelow(subtotal)),
        processingFee |-> toFixed2(processingFee, FALSE),
        total |-> toFixed2(total, FALSE)]

\* calculateFees with the fixed processing fee left out.
calculateFeesNoFixedFee(subtotal, deliveryFee) ==
    LET platformFee == subtotal * PLATFORM_FEE_RATE
        processingFee == (subtotal + deliveryFee) * STRIPE_FEE_RATE
        total == subtotal * 1000 + platformFee + processingFee + deliveryFee * 1000
    IN [platformFee |-> toFixed2(platformFee, platformFeeBelow(subtotal)),
        processingFee |-> toFixed2(processingFee, FALSE),
        total |-> toFixed2(total, FALSE)]

\* routes.ts:50-60, amounts in cents.
calculateFees(subtotal, deliveryFee) ==
    LET platformFee == subtotal * PLATFORM_FEE_RATE
        processingFee == (subtotal + deliveryFee) * STRIPE_FEE_RATE
                            + STRIPE_FIXED_FEE * 1000
        total == subtotal * 1000 + platformFee + processingFee + deliveryFee * 1000
    IN [platformFee |-> toFixed2(platformFee, platformFeeBelow(subtotal)),
        processingFee |-> toFixed2(processingFee, processingFeeBelow(subtotal, deliveryFee)),
        total |-> toFixed2(total, totalBelow(subtotal, deliveryFee))]

\* routes.ts:321-342: the response of POST /api/orders/calculate-fees.  With a
\* numeric subtotal and deliveryFee no statement of the try block throws and the
\* status is 200; when calculateFees throws, the catch answers 400 with a message.
calculateFeesResponse(subtotal, option) ==
    LET deliveryFee == deliveryFeeOf(option)
        fees == calculateFees(subtotal, deliveryFee)
    IN IF calculateFeesThrows(option)
       THEN [status |-> 400, subtotal |-> 0, deliveryFee |-> 0, platformFee |-> 0,
             processingFee |-> 0, total |-> 0]
       ELSE [status |-> 200,
             subtotal |-> subtotal,
             deliveryFee |-> deliveryFee,
             platformFee |-> fees.platformFee,
             processingFee |-> fees.processingFee,
             total |-> fees.total]

\* The subtotals of the fee requests, in cents.
FeeSubtotals == (-MaxNegSubtotal .. MaxSubtotal) \cup {5000, 10000}

NoFeeReq == [subtotal |-> 0, deliveryOption |-> "unsent"]
NoFeeRes == [status |-> 0, subtotal |-> 0, deliveryFee |-> 0, platformFee |-> 0,
             processingFee |-> 0, total |-> 0]

\* POST /api/orders/calculate-fees
CalculateFeesRoute(subtotal, option) ==
    /\ feeReq' = [subtotal |-> subtotal, deliveryOption |-> option]
    /\ feeRes' = calculateFeesResponse(subtotal, option)
    /\ UNCHANGED <<searchVars, productVars, addVars, paymentVars, userVars, catalogVars, cartVars, orderVars,
                   handlerVars, resp>>

FeesInit ==
    /\ feeReq = NoFeeReq
    /\ feeRes = NoFeeRes
    /\ searchReq = NoSearchReq
    /\ searchRes = NoSearchRes
    /\ StoreInit
    /\ ProductsInit

FeesNext ==
    \E subtotal \in FeeSubtotals, option \in DeliveryOptions :
        CalculateFeesRoute(subtotal, option)

SpecFees == FeesInit /\ [][FeesNext]_vars

\* ------------------------------------------------------- orders and access
RECURSIVE SumOver(_, _)
\* The sum of f[x] over the finite set S.
SumOver(S, f) ==
    IF S = {} THEN 0
    ELSE LET x == CHOOSE y \in S : TRUE
         IN f[x] + SumOver(S \ {x}, f)

\* routes.ts:379-381: cartItems.reduce(sum + Number(item.product.price) * item.quantity).
subtotalOf(items) ==
    SumOver(items, [item \in items |-> item.price * item.quantity])

\* orderItemsData with the quantity left out of totalPrice.
orderItemsDataUnitTotal(orderId, items) ==
    {[id |-> <<orderId, item.id>>, orderId |-> orderId, productId |-> item.productId,
      quantity |-> item.quantity, unitPrice |-> item.price,
      totalPrice |-> item.price] : item \in items}

\* routes.ts:408-413 and storage.ts:378-389: the order_items rows of an order.
\* The row id (a randomUUID) is held as the pair of the order and the cart row
\* the item was mapped from.
orderItemsData(orderId, items) ==
    {[id |-> <<orderId, item.id>>, orderId |-> orderId, productId |-> item.productId,
      quantity |-> item.quantity, unitPrice |-> item.price,
      totalPrice |-> item.price * item.quantity] : item \in items}

\* A row createOrder would insert for an order that is confirmed at once.
orderRowConfirmed(id, userId, items, option) ==
    LET subtotal == subtotalOf(items)
        deliveryFee == deliveryFeeOf(option)
        fees == calculateFees(subtotal, deliveryFee)
    IN [id |-> id, userId |-> userId, status |-> "confirmed", subtotal |-> subtotal,
        platformFee |-> fees.platformFee, processingFee |-> fees.processingFee,
        deliveryFee |-> deliveryFee, total |-> fees.total,
        deliveryOption |-> option, stripePaymentIntentId |-> "null"]

\* A row createOrder would insert if the order's fees left the delivery fee out.
orderRowFreeDelivery(id, userId, items, option) ==
    LET subtotal == subtotalOf(items)
        fees == calculateFees(subtotal, 0)
    IN [id |-> id, userId |-> userId, status |-> "pending", subtotal |-> subtotal,
        platformFee |-> fees.platformFee, processingFee |-> fees.processingFee,
        deliveryFee |-> 0, total |-> fees.total,
        deliveryOption |-> option, stripePaymentIntentId |-> "null"]

\* routes.ts:378-405: the row createOrder inserts.
orderRow(id, userId, items, option) ==
    LET subtotal == subtotalOf(items)
        deliveryFee == deliveryFeeOf(option)
        fees == calculateFees(subtotal, deliveryFee)
    IN [id |-> id, userId |-> userId, status |-> "pending", subtotal |-> subtotal,
        platformFee |-> fees.platformFee, processingFee |-> fees.processingFee,
        deliveryFee |-> deliveryFee, total |-> fees.total,
        deliveryOption |-> option, stripePaymentIntentId |-> "null"]

\* The handler of u returns: its locals are gone.
HandlerReturns(u) ==
    /\ pc' = [pc EXCEPT ![u] = "idle"]
    /\ cartItems' = [cartItems EXCEPT ![u] = {}]
    /\ deliveryOption' = [deliveryOption EXCEPT ![u] = "none"]
    /\ order' = [order EXCEPT ![u] = 0]

\* A test that lets every cart through.
cartIsEmptyNever(items) == FALSE

\* routes.ts:374: cartItems.length === 0.
cartIsEmpty(items) == items = {}

\* routes.ts:365-376: POST /api/orders reads the body and the cart.  An empty
\* cart is answered 400; otherwise the handler goes on to createOrder.
OrderGetCart(u, option) ==
    /\ pc[u] = "idle"
    /\ LET items == getCartItems(u)
       IN IF cartIsEmpty(items)
          THEN /\ resp' = Response("POST /api/orders", u, 400, 0, 0, "none", "none", {})
               /\ UNCHANGED handlerVars
          ELSE /\ nextOrderId + Cardinality({v \in Users : pc[v] = "getCartItems"})
                    <= MaxOrders
               /\ pc' = [pc EXCEPT ![u] = "getCartItems"]
               /\ cartItems' = [cartItems EXCEPT ![u] = items]
               /\ deliveryOption' = [deliveryOption EXCEPT ![u] = option]
               /\ order' = [order EXCEPT ![u] = 0]
               /\ resp' = NoResp
    /\ UNCHANGED <<feeVars, searchVars, productVars, addVars, paymentVars, userVars, catalogVars, cartVars, orderVars>>

\* routes.ts:378-405 with storage.ts:365-376: the totals and createOrder.  The
\* column delivery_option is NOT NULL (schema.ts:66): without a deliveryOption
\* the INSERT throws, and the catch answers 400; so it does when calculateFees
\* throws.
OrderCreate(u) ==
    /\ pc[u] = "getCartItems"
    /\ IF deliveryOption[u] = "none" \/ calculateFeesThrows(deliveryOption[u])
       THEN /\ HandlerReturns(u)
            /\ resp' = Response("POST /api/orders", u, 400, 0, 0, "none", "none", {})
            /\ UNCHANGED orderVars
       ELSE /\ orders' = orders \cup
                    {orderRow(nextOrderId, u, cartItems[u], deliveryOption[u])}
            /\ nextOrderId' = nextOrderId + 1
            /\ order' = [order EXCEPT ![u] = nextOrderId]
            /\ pc' = [pc EXCEPT ![u] = "createOrder"]
            /\ resp' = NoResp
            /\ UNCHANGED <<orderItems, cartItems, deliveryOption>>
    /\ UNCHANGED <<feeVars, searchVars, productVars, addVars, paymentVars, userVars, catalogVars, cartVars>>

\* routes.ts:407-415 with storage.ts:378-389: addOrderItems.
OrderAddItems(u) ==
    /\ pc[u] = "createOrder"
    /\ orderItems' = orderItems \cup orderItemsData(order[u], cartItems[u])
    /\ pc' = [pc EXCEPT ![u] = "addOrderItems"]
    /\ resp' = NoResp
    /\ UNCHANGED <<feeVars, searchVars, productVars, addVars, paymentVars, userVars, catalogVars, cartVars, orders, nextOrderId, cartItems,
                   deliveryOption, order>>

\* routes.ts:417-420 with storage.ts:361-363: clearCart, then res.json(order).
OrderClearCart(u) ==
    /\ pc[u] = "addOrderItems"
    /\ cart' = clearCart(u)
    /\ HandlerReturns(u)
    /\ resp' = Response("POST /api/orders", u, 200, 0, order[u], "none", u, {order[u]})
    /\ UNCHANGED <<feeVars, searchVars, productVars, addVars, paymentVars, userVars, catalogVars, nextCartId, orderVars>>

\* routes.ts:421-423: the storage call the handler awaits next (createOrder,
\* addOrderItems or clearCart) rejects, a database or connection error; the
\* catch answers 400.  Nothing the handler wrote before is undone: each storage
\* call is a statement of its own (storage.ts:18-19, the neon-http driver).
OrderStorageError(u) ==
    /\ pc[u] \in {"getCartItems", "createOrder", "addOrderItems"}
    /\ HandlerReturns(u)
    /\ resp' = Response("POST /api/orders", u, 400, 0, order[u], "none", "none", {})
    /\ UNCHANGED <<feeVars, searchVars, productVars, addVars, paymentVars, userVars, catalogVars, cartVars, orderVars>>

\* storage.ts:121-124 getProducerByUserId: result[0] of the user's producers
\* rows; the set of rows it may be (empty when the user has none).
getProducerByUserId(userId) == {id \in DOMAIN producers : producers[id].userId = userId}

\* storage.ts:447-465 getOrdersByProducer: the orders with an item whose product
\* belongs to the producer.
getOrdersByProducer(producerId) ==
    {i.orderId : i \in {x \in orderItems :
        /\ x.productId \in DOMAIN products
        /\ products[x.productId].producerId = producerId}}

\* getOrderResponse without the ownership check of routes.ts:461-463.
getOrderResponseAnyCaller(u, id) ==
    LET found == {o \in orders : o.id = id}
    IN IF found = {}
       THEN Response("GET /api/orders/:id", u, 404, 0, id, "none", "none", {})
       ELSE LET o == CHOOSE x \in found : TRUE
            IN Response("GET /api/orders/:id", u, 200, 0, id, "none", o.userId, {id})

\* routes.ts:453-469 GET /api/orders/:id: the response.
getOrderResponse(u, id) ==
    LET found == {o \in orders : o.id = id}
    IN IF found = {}
       THEN Response("GET /api/orders/:id", u, 404, 0, id, "none", "none", {})
       ELSE LET o == CHOOSE x \in found : TRUE
            IN IF o.userId # u
               THEN Response("GET /api/orders/:id", u, 403, 0, id, "none", o.userId, {})
               ELSE Response("GET /api/orders/:id", u, 200, 0, id, "none", o.userId, {id})

\* routes.ts:437-451 GET /api/orders/producer/:producerId: the response, the
\* caller's producer row being `mine` ("none" when the caller has no row).
producerOrdersResponse(u, mine, producerId) ==
    LET owner == IF producerId \in DOMAIN producers
                 THEN producers[producerId].userId ELSE "none"
    IN IF mine = "none" \/ mine # producerId
       THEN Response("GET /api/orders/producer/:producerId", u, 403, 0, 0,
                     producerId, owner, {})
       ELSE Response("GET /api/orders/producer/:producerId", u, 200, 0, 0,
                     producerId, owner, getOrdersByProducer(producerId))

\* GET /api/orders/:id
GetOrder(u, id) ==
    /\ resp' = getOrderResponse(u, id)
    /\ UNCHANGED <<feeVars, searchVars, productVars, addVars, paymentVars, userVars, catalogVars, cartVars, orderVars, handlerVars>>

\* GET /api/orders/producer/:producerId
GetProducerOrders(u, producerId) ==
    /\ \E mine \in (IF getProducerByUserId(u) = {} THEN {"none"}
                    ELSE getProducerByUserId(u)) :
          resp' = producerOrdersResponse(u, mine, producerId)
    /\ UNCHANGED <<feeVars, searchVars, productVars, addVars, paymentVars, userVars, catalogVars, cartVars, orderVars, handlerVars>>

\* -------------------------------------------------------- producer routes
\* The number of producers rows in an explored run, the seed rows included.
MaxProducers == 4

\* The id of the n-th producers row (a random UUID in the code: fresh).
producerIdOf(n) == "farm" \o ToString(n)

\* The bodies of POST /api/producers explored: one insertProducerSchema accepts
\* and one it rejects (businessName is missing).  Either may carry a location.
ProducerBodies ==
    {[valid |-> v, location |-> l] : v \in BOOLEAN, l \in {NullPoint, Point(1, 1)}}

\* storage.ts:126-141 createProducer: the row inserted has location null
\* whatever the input carries.
createProducer(id, userId, body) ==
    [x \in DOMAIN producers \cup {id} |->
        IF x = id THEN [userId |-> userId, location |-> NullPoint] ELSE producers[x]]

\* storage.ts:97-106 updateUser as POST /api/producers calls it.
updateUser(id, role, profileCompletion) ==
    [users EXCEPT ![id] = [role |-> role, profileCompletion |-> profileCompletion]]

\* routes.ts:124-144 POST /api/producers: parse, createProducer, updateUser.
CreateProducer(u, body) ==
    /\ Cardinality(DOMAIN producers) < MaxProducers
    /\ IF ~body.valid
       THEN /\ resp' = Response("POST /api/producers", u, 400, 0, 0, "none", "none", {})
            /\ UNCHANGED <<producers, users>>
       ELSE LET id == producerIdOf(Cardinality(DOMAIN producers) + 1)
            IN  /\ producers' = createProducer(id, u, body)
                /\ users' = updateUser(u, "producer", 80)
                /\ resp' = Response("POST /api/producers", u, 200, 0, 0, id, u, {})
    /\ UNCHANGED <<feeVars, searchVars, productVars, addVars, paymentVars, products,
                   cartVars, orderVars, handlerVars>>

\* ---------------------------------------------------------------- payment
\* The number of payment intents created in an explored run.
MaxIntents == 2

\* routes.ts:351 Math.round(amount * 100): the amount of the body, here in
\* thousandths of a cent, as whole cents.
amountInCents(amount) == (amount + 500) \div 1000

\* routes.ts:344-363 POST /api/create-payment-intent: amount and orderId are
\* taken from the body as they come; no order is read.  Stripe refuses an amount
\* that is not positive, and the catch answers 500.
CreatePaymentIntent(u, amount, orderId) ==
    /\ Cardinality(paymentIntents) < MaxIntents
    /\ IF amountInCents(amount) < 1
       THEN /\ resp' = Response("POST /api/create-payment-intent", u, 500, 0, orderId,
                                 "none", "none", {})
            /\ UNCHANGED paymentIntents
       ELSE /\ paymentIntents' = paymentIntents \cup
                    {[id |-> Cardinality(paymentIntents) + 1,
                      amount |-> amountInCents(amount), orderId |-> orderId,
                      userId |-> u, status |-> "requires_payment_method"]}
            /\ resp' = Response("POST /api/create-payment-intent", u, 200, 0, orderId,
                                 "none", "none", {})
    /\ UNCHANGED <<feeVars, searchVars, productVars, addVars, userVars, catalogVars,
                   cartVars, orderVars, handlerVars>>

\* checkout.tsx:31-62 handleSubmit: the client confirms the payment with Stripe,
\* and Stripe charges the amount of the intent.  No request reaches the server.
ConfirmPayment(id) ==
    /\ \E p \in paymentIntents : p.id = id /\ p.status = "requires_payment_method"
    /\ paymentIntents' = {IF p.id = id THEN [p EXCEPT !.status = "succeeded"] ELSE p :
                             p \in paymentIntents}
    /\ UNCHANGED <<feeVars, searchVars, productVars, addVars, userVars, catalogVars,
                   cartVars, orderVars, handlerVars, resp>>

\* The amounts a POST /api/create-payment-intent body carries: the total of the
\* fee preview the client holds (checkout.tsx:141), or one the caller picks.
PaymentAmounts ==
    {0, 100000} \cup (IF feeRes.status = 200 THEN {feeRes.total * 1000} ELSE {})

\* ------------------------------------------------------------------ search
\* The catalogue the search is explored on: the seed rows, a producer that has
\* no location yet (createProducer stores location NULL), one of its products,
\* and a product that is not available.
SearchProducers ==
    [id \in {"farm1", "farm2", "farm3"} |->
        IF id = "farm3" THEN [userId |-> "erin", location |-> NullPoint]
                        ELSE SeedProducers[id]]

SearchProducts ==
    [id \in {"p1", "p2", "p3", "p4"} |->
        CASE id = "p3" ->
                [producerId |-> "farm3", price |-> 75, name |-> <<"P", "e", "a">>,
                 description |-> Text(<<"k", "_", "%">>), category |-> "vegetables",
                 tags |-> {"local", "organic"}, available |-> TRUE, createdAt |-> 3]
          [] id = "p4" ->
                [producerId |-> "farm1", price |-> 25, name |-> <<"K", "a", "l", "e">>,
                 description |-> NullText, category |-> "vegetables",
                 tags |-> {"organic"}, available |-> FALSE, createdAt |-> 4]
          [] OTHER -> SeedProducts[id]]

\* Kilometres to one degree of latitude, and of longitude near the equator where
\* the catalogue lies; ST_Distance on geography measures along the spheroid.
KmPerDegree == 111

\* The square of ST_Distance(...) / 1000 between the origin and a location.
distanceSquared(lat, lng, location) ==
    KmPerDegree * KmPerDegree
        * ((location.y - lat) * (location.y - lat) + (location.x - lng) * (location.x - lng))

\* The value of a query parameter in `lat ? Number(lat) : undefined`: a non-empty
\* string is truthy whatever it spells, so "0" gives the number 0.
undefined == [kind |-> "undefined", val |-> 0]
numberParam(p) == IF p.kind = "absent" THEN undefined ELSE [kind |-> p.kind, val |-> p.val]

\* JavaScript truthiness of a number | undefined: false for undefined, NaN and 0.
truthy(n) == n.kind = "num" /\ n.val # 0

\* ILIKE folds case.
lower(c) ==
    CASE c = "A" -> "a" [] c = "K" -> "k" [] c = "L" -> "l"
      [] c = "E" -> "e" [] c = "P" -> "p" [] OTHER -> c

lowerAll(chars) == [i \in 1 .. Len(chars) |-> lower(chars[i])]

\* text LIKE pattern: % matches any run of characters and _ any one character.
RECURSIVE like(_, _)
like(text, pattern) ==
    IF pattern = <<>> THEN text = <<>>
    ELSE IF Head(pattern) = "%"
         THEN like(text, Tail(pattern)) \/ (text # <<>> /\ like(Tail(text), pattern))
    ELSE /\ text # <<>>
         /\ Head(pattern) = "_" \/ Head(pattern) = Head(text)
         /\ like(Tail(text), Tail(pattern))

\* column ILIKE '%' || query || '%'; NULL ILIKE ... is NULL, which WHERE drops.
ilikeContains(column, query) ==
    /\ ~column.null
    /\ like(lowerAll(column.chars), <<"%">> \o lowerAll(query) \o <<"%">>)

\* tags.map(tag => `'${tag}'`).join(','): one string.
RECURSIVE quotedJoin(_)
quotedJoin(tags) ==
    IF Len(tags) = 1 THEN "'" \o tags[1] \o "'"
    ELSE "'" \o tags[1] \o "'," \o quotedJoin(Tail(tags))

\* A WHERE clause that does not ask for available products.
searchMatchesUnavailable(id, query, lat, lng, radiusKm, category, tags) ==
    LET product == products[id]
        location == producers[product.producerId].location
    IN  /\ query # <<>> =>
              \/ ilikeContains(Text(product.name), query)
              \/ ilikeContains(product.description, query)
        /\ category # "" => product.category = category
        /\ Len(tags) > 0 => product.tags \cap {quotedJoin(tags)} # {}
        /\ (truthy(lat) /\ truthy(lng) /\ truthy(radiusKm)) =>
              /\ ~location.null
              /\ distanceSquared(lat.val, lng.val, location) <= radiusKm.val * radiusKm.val

\* The WHERE clause of searchProducts for one joined row.
searchMatches(id, query, lat, lng, radiusKm, category, tags) ==
    LET product == products[id]
        location == producers[product.producerId].location
    IN  /\ product.available
        /\ query # <<>> =>
              \/ ilikeContains(Text(product.name), query)
              \/ ilikeContains(product.description, query)
        /\ category # "" => product.category = category
        /\ Len(tags) > 0 => product.tags \cap {quotedJoin(tags)} # {}
        /\ (truthy(lat) /\ truthy(lng) /\ truthy(radiusKm)) =>
              /\ ~location.null
              /\ distanceSquared(lat.val, lng.val, location) <= radiusKm.val * radiusKm.val

\* An ORDER BY that lists the oldest product first.
sortsBeforeOldestFirst(a, b, lat, lng) == products[a].createdAt < products[b].createdAt

\* The ORDER BY of searchProducts: row a must come before row b.  Ascending
\* distance puts NULL last.
sortsBefore(a, b, lat, lng) ==
    LET la == producers[products[a].producerId].location
        lb == producers[products[b].producerId].location
    IN  IF truthy(lat) /\ truthy(lng)
        THEN /\ ~la.null
             /\ \/ lb.null
                \/ distanceSquared(lat.val, lng.val, la) < distanceSquared(lat.val, lng.val, lb)
        ELSE products[a].createdAt > products[b].createdAt

\* The result lists searchProducts can return: the matching rows in an order the
\* ORDER BY allows (rows the sort key does not separate come in any order).
searchProducts(query, lat, lng, radiusKm, category, tags) ==
    LET matched == {id \in DOMAIN products :
                        searchMatches(id, query, lat, lng, radiusKm, category, tags)}
        n == Cardinality(matched)
    IN  {rows \in [1 .. n -> matched] :
            /\ \A i, j \in 1 .. n : i # j => rows[i] # rows[j]
            /\ \A i, j \in 1 .. n : i < j => ~sortsBefore(rows[j], rows[i], lat, lng)}

\* GET /api/products/search.
SearchRoute(q, lat, lng, radius, category, tags) ==
    /\ searchReq' = [q |-> q, lat |-> lat, lng |-> lng, radius |-> radius,
                     category |-> category, tags |-> tags, sent |-> TRUE]
    /\ \E rows \in searchProducts(q, numberParam(lat), numberParam(lng),
                                  numberParam(radius), category, tags) :
          searchRes' = [status |-> 200, rows |-> rows]
    /\ UNCHANGED <<feeVars, productVars, addVars, paymentVars, userVars, catalogVars, cartVars, orderVars,
                   handlerVars, resp>>

\* The requests explored.
SearchQueries == {<<>>, <<"K", "_">>}
SearchCoordinates == {Absent, Numeral(0), Numeral(1), NotANumeral}
SearchRadii == {Absent, Numeral(0), Numeral(100), Numeral(200), NotANumeral}
SearchCategories == {"", "vegetables"}
SearchTags == {<<>>, <<"organic">>, <<"organic", "local">>}

SearchInit ==
    /\ feeReq = NoFeeReq
    /\ feeRes = NoFeeRes
    /\ searchReq = NoSearchReq
    /\ searchRes = NoSearchRes
    /\ producers = SearchProducers
    /\ products = SearchProducts
    /\ ProductsInit
    /\ cart = {}
    /\ nextCartId = 1
    /\ orders = {}
    /\ orderItems = {}
    /\ nextOrderId = 1
    /\ pc = [u \in Users |-> "idle"]
    /\ cartItems = [u \in Users |-> {}]
    /\ deliveryOption = [u \in Users |-> "none"]
    /\ order = [u \in Users |-> 0]
    /\ resp = NoResp
    /\ adds = [slot \in AddSlots |-> NoAdd]
    /\ paymentIntents = {}
    /\ users = SeedUsers

SearchNext ==
    \E q \in SearchQueries, lat \in SearchCoordinates, lng \in SearchCoordinates,
       radius \in SearchRadii, category \in SearchCategories, tags \in SearchTags :
        SearchRoute(q, lat, lng, radius, category, tags)

SpecSearch == SearchInit /\ [][SearchNext]_vars

\* ---------------------------------------------------------- product routes
\* The callers of the product routes: the users, and the user of farm2.
ProductUsers == Users \cup {"dave"}

\* The number of product rows ever created in an explored run.
MaxProducts == 3

\* A row id the store generates (randomUUID): never one it gave before.
productIdOf(n) == "p" \o ToString(n)

\* storage.ts:186-189 getProduct: the rows with this id (none or one).
getProduct(id) == {x \in DOMAIN products : x = id}

ProductResponse(route, user, status, productId, producer, owner) ==
    [route |-> route, user |-> user, status |-> status, productId |-> productId,
     producer |-> producer, owner |-> owner]

\* The producerId of row id as stored, "none" when there is no such row.
productOwner(id) == IF id \in DOMAIN products THEN products[id].producerId ELSE "none"

\* The bodies of POST /api/products explored: one insertProductSchema accepts
\* and one it rejects (a required column is missing).  Either may name a
\* producerId of its own, which the route overwrites.
ProductBodies ==
    {[valid |-> v, producerId |-> "farm2", name |-> <<"P", "e", "a">>, price |-> 75,
      description |-> NullText, category |-> "vegetables", tags |-> {"local"}] :
        v \in BOOLEAN}

\* storage.ts:191-205 createProduct.
createProduct(id, producerId, body, now) ==
    [x \in DOMAIN products \cup {id} |->
        IF x = id
        THEN [producerId |-> producerId, price |-> body.price, name |-> body.name,
              description |-> body.description, category |-> body.category,
              tags |-> body.tags, available |-> TRUE, createdAt |-> now]
        ELSE products[x]]

\* storage.ts:207-215 updateProduct: UPDATE ... SET the columns the body names.
updateProduct(id, updates) ==
    [products EXCEPT ![id] =
        [f \in DOMAIN products[id] |->
            IF f \in DOMAIN updates THEN updates[f] ELSE products[id][f]]]

\* storage.ts:217-219 deleteProduct.
deleteProduct(id) == [x \in DOMAIN products \ {id} |-> products[x]]

\* A row of cart or order_items references the product (schema.ts:77,86).
productReferenced(id) ==
    \/ \E r \in cart : r.productId = id
    \/ \E i \in orderItems : i.productId = id

\* POST /api/products.
CreateProduct(u, body) ==
    /\ nextProductId <= MaxProducts
    /\ IF getProducerByUserId(u) = {}
       THEN /\ productRes' = ProductResponse("POST /api/products", u, 403, "none", "none", "none")
            /\ UNCHANGED <<products, creator, nextProductId>>
       ELSE \E producer \in getProducerByUserId(u) :
              IF ~body.valid
              THEN /\ productRes' = ProductResponse("POST /api/products", u, 400, "none",
                                                    producer, "none")
                   /\ UNCHANGED <<products, creator, nextProductId>>
              ELSE LET id == productIdOf(nextProductId)
                   IN  /\ products' = createProduct(id, producer, body, nextProductId)
                       /\ creator' = [x \in DOMAIN products \cup {id} |->
                                        IF x = id THEN u ELSE creator[x]]
                       /\ nextProductId' = nextProductId + 1
                       /\ productRes' = ProductResponse("POST /api/products", u, 200, id,
                                                        producer, producer)
    /\ UNCHANGED <<feeVars, searchVars, addVars, paymentVars, userVars, producers, cartVars, orderVars,
                   handlerVars, resp>>

\* The bodies of PATCH /api/products/:id explored: the route hands req.body to
\* updateProduct as it came, so a body may name any column.
ProductUpdates ==
    {[producerId |-> producerId] : producerId \in ProducerIds}
        \cup {[available |-> FALSE], [price |-> 200]}

\* PATCH /api/products/:id.
UpdateProduct(u, id, updates) ==
    /\ IF getProducerByUserId(u) = {}
       THEN /\ productRes' = ProductResponse("PATCH /api/products/:id", u, 403, id,
                                             "none", productOwner(id))
            /\ UNCHANGED products
       ELSE \E producer \in getProducerByUserId(u) :
              IF getProduct(id) = {} \/ products[id].producerId # producer
              THEN /\ productRes' = ProductResponse("PATCH /api/products/:id", u, 403, id,
                                                    producer, productOwner(id))
                   /\ UNCHANGED products
              ELSE IF "producerId" \in DOMAIN updates /\ updates.producerId \notin DOMAIN producers
              THEN \* products.producer_id references producers.id: the UPDATE throws
                   /\ productRes' = ProductResponse("PATCH /api/products/:id", u, 400, id,
                                                    producer, productOwner(id))
                   /\ UNCHANGED products
              ELSE /\ products' = updateProduct(id, updates)
                   /\ productRes' = ProductResponse("PATCH /api/products/:id", u, 200, id,
                                                    producer, productOwner(id))
    /\ UNCHANGED <<feeVars, searchVars, addVars, paymentVars, userVars, creator, nextProductId, producers, cartVars,
                   orderVars, handlerVars, resp>>

\* DELETE /api/products/:id.
DeleteProduct(u, id) ==
    /\ IF getProducerByUserId(u) = {}
       THEN /\ productRes' = ProductResponse("DELETE /api/products/:id", u, 403, id,
                                             "none", productOwner(id))
            /\ UNCHANGED <<products, creator>>
       ELSE \E producer \in getProducerByUserId(u) :
              IF getProduct(id) = {} \/ products[id].producerId # producer
              THEN /\ productRes' = ProductResponse("DELETE /api/products/:id", u, 403, id,
                                                    producer, productOwner(id))
                   /\ UNCHANGED <<products, creator>>
              ELSE IF productReferenced(id)
              THEN \* cart.product_id, order_items.product_id reference it: the DELETE throws
                   /\ productRes' = ProductResponse("DELETE /api/products/:id", u, 400, id,
                                                    producer, productOwner(id))
                   /\ UNCHANGED <<products, creator>>
              ELSE /\ products' = deleteProduct(id)
                   /\ creator' = [x \in DOMAIN products \ {id} |-> creator[x]]
                   /\ productRes' = ProductResponse("DELETE /api/products/:id", u, 200, id,
                                                    producer, productOwner(id))
    /\ UNCHANGED <<feeVars, searchVars, addVars, paymentVars, userVars, nextProductId, producers, cartVars, orderVars,
                   handlerVars, resp>>

\* GET /api/products/:id.
GetProduct(u, id) ==
    /\ productRes' =
          IF getProduct(id) = {}
          THEN ProductResponse("GET /api/products/:id", u, 404, id, "none", "none")
          ELSE ProductResponse("GET /api/products/:id", u, 200, id, "none", productOwner(id))
    /\ UNCHANGED <<feeVars, searchVars, addVars, paymentVars, userVars, creator, nextProductId, catalogVars, cartVars,
                   orderVars, handlerVars, resp>>

\* ----------------------------------------------------------- the server
Init ==
    /\ feeReq = NoFeeReq
    /\ feeRes = NoFeeRes
    /\ searchReq = NoSearchReq
    /\ searchRes = NoSearchRes
    /\ StoreInit
    /\ ProductsInit

\* The delivery options the explored POST /api/orders requests carry: one with a
\* fee, one without, and none at all.
OrderOptions == {"pickup", "home", "none"}

\* The cart routes and POST /api/orders.
Next ==
    \E u \in Users :
        \/ \E productId \in DOMAIN products, quantity \in 1 .. MaxQuantity :
                AddToCart(u, productId, quantity)
        \/ \E id \in 1 .. MaxCartIds, quantity \in {0, MaxQuantity} :
                UpdateCartItem(u, id, quantity)
        \/ \E id \in 1 .. MaxCartIds : RemoveFromCart(u, id)
        \/ \E option \in OrderOptions : OrderGetCart(u, option)
        \/ OrderCreate(u)
        \/ OrderAddItems(u)
        \/ OrderClearCart(u)
        \/ OrderStorageError(u)

\* POST /api/cart, POST /api/orders and the two order reads.
AccessNext ==
    \E u \in Users :
        \/ \E productId \in DOMAIN products, quantity \in 1 .. MaxQuantity :
                AddToCart(u, productId, quantity)
        \/ \E option \in OrderOptions : OrderGetCart(u, option)
        \/ OrderCreate(u)
        \/ OrderAddItems(u)
        \/ OrderClearCart(u)
        \/ OrderStorageError(u)
        \/ \E id \in 1 .. MaxOrders + 1 : GetOrder(u, id)
        \/ \E producerId \in ProducerIds : GetProducerOrders(u, producerId)

SpecAccess == Init /\ [][AccessNext]_vars

Spec == Init /\ [][Next]_vars

\* The subtotals (cents) of the fee previews explored next to the orders: none,
\* one p1, and one p1 with one p2.
CheckoutSubtotals == {0, 125, 175}

\* Checkout while the store answers every statement: the fee preview, POST
\* /api/cart and POST /api/orders.
CheckoutNext ==
    \/ \E subtotal \in CheckoutSubtotals, option \in DeliveryOptions :
            CalculateFeesRoute(subtotal, option)
    \/ \E u \in Users :
        \/ \E productId \in DOMAIN products : AddToCart(u, productId, 1)
        \/ \E option \in DeliveryOptions : OrderGetCart(u, option)
        \/ OrderCreate(u)
        \/ OrderAddItems(u)
        \/ OrderClearCart(u)

SpecCheckout == Init /\ [][CheckoutNext]_vars

\* A catalogue in which farm1 has two available products, p1 and p4.
ReadsProducts == [SearchProducts EXCEPT !["p4"].available = TRUE]

ReadsInit ==
    /\ feeReq = NoFeeReq
    /\ feeRes = NoFeeRes
    /\ searchReq = NoSearchReq
    /\ searchRes = NoSearchRes
    /\ producers = SearchProducers
    /\ products = ReadsProducts
    /\ ProductsInit
    /\ cart = {}
    /\ nextCartId = 1
    /\ orders = {}
    /\ orderItems = {}
    /\ nextOrderId = 1
    /\ pc = [u \in Users |-> "idle"]
    /\ cartItems = [u \in Users |-> {}]
    /\ deliveryOption = [u \in Users |-> "none"]
    /\ order = [u \in Users |-> 0]
    /\ resp = NoResp
    /\ adds = [slot \in AddSlots |-> NoAdd]
    /\ paymentIntents = {}
    /\ users = SeedUsers

\* The two read-only computations, each called again and again, in any order:
\* the fee preview and searches with and without an origin and a radius.
ReadsNext ==
    \/ \E subtotal \in CheckoutSubtotals, option \in DeliveryOptions :
            CalculateFeesRoute(subtotal, option)
    \/ \E lat \in {Absent, Numeral(1)}, lng \in {Absent, Numeral(1)},
          radius \in {Absent, Numeral(200)} :
            SearchRoute(<<>>, lat, lng, radius, "", <<>>)

SpecReads == ReadsInit /\ [][ReadsNext]_vars

\* POST /api/cart requests whose addToCart calls run side by side, and DELETE
\* /api/cart/:id.
CartRaceNext ==
    \/ \E slot \in AddSlots, u \in Users, productId \in DOMAIN products,
          quantity \in 1 .. MaxQuantity : AddToCartSelect(slot, u, productId, quantity)
    \/ \E slot \in AddSlots : AddToCartWrite(slot)
    \/ \E u \in Users, id \in 1 .. MaxCartIds : RemoveFromCart(u, id)

SpecCartRace == Init /\ [][CartRaceNext]_vars

\* Checkout with payment, while the store answers every statement: the fee
\* preview, POST /api/cart, POST /api/orders, POST /api/create-payment-intent and
\* the confirmation at Stripe.
PaymentNext ==
    \/ \E subtotal \in {125, 175}, option \in {"pickup", "home"} :
            CalculateFeesRoute(subtotal, option)
    \/ \E u \in {"alice"} :
        \/ \E productId \in {"p1", "p2"} : AddToCart(u, productId, 1)
        \/ \E option \in {"pickup", "home"} : OrderGetCart(u, option)
        \/ OrderCreate(u)
        \/ OrderAddItems(u)
        \/ OrderClearCart(u)
        \/ \E amount \in PaymentAmounts, orderId \in 1 .. MaxOrders :
                CreatePaymentIntent(u, amount, orderId)
    \/ \E id \in 1 .. MaxIntents : ConfirmPayment(id)

SpecPayment == Init /\ [][PaymentNext]_vars

\* A user registers as a producer, lists products, and the catalogue is searched
\* from an origin with a radius.
OnboardNext ==
    \/ \E u \in Users :
        \/ \E body \in ProducerBodies : CreateProducer(u, body)
        \/ \E body \in ProductBodies : CreateProduct(u, body)
    \/ \E lat \in {Numeral(0), Numeral(1)}, radius \in {Numeral(100), Numeral(200)} :
            SearchRoute(<<>>, lat, Numeral(1), radius, "", <<>>)

SpecOnboard == Init /\ [][OnboardNext]_vars

\* The product ids the explored requests name: the rows ever created, and one
\* that never is.
ProductIds == {productIdOf(n) : n \in 1 .. MaxProducts + 1}

ProductsNext ==
    \E u \in ProductUsers :
        \/ \E body \in ProductBodies : CreateProduct(u, body)
        \/ \E id \in ProductIds, updates \in ProductUpdates : UpdateProduct(u, id, updates)
        \/ \E id \in ProductIds : DeleteProduct(u, id)
        \/ \E id \in ProductIds : GetProduct(u, id)

SpecProducts == Init /\ [][ProductsNext]_vars

\* A fee request has been answered.
FeeAnswered == feeReq.deliveryOption # "unsent"

\* ------------------------------------------------------------ fee claims
\* C1 (as claimed): for every subtotal >= 0 and every delivery option the returned
\* total equals subtotal + platformFee + processingFee + deliveryFee, the sum of the
\* returned 2-decimal components.
C1_TotalIsSumOfReturned ==
    (FeeAnswered /\ feeReq.subtotal >= 0) =>
        feeRes.total = feeRes.subtotal + feeRes.platformFee
                        + feeRes.processingFee + feeRes.deliveryFee

\* C5: for every subtotal >= 0 and every delivery option, recognized or not, the
\* total of a returned fee calculation is at least the subtotal.
C5_TotalAtLeastSubtotal ==
    (FeeAnswered /\ feeReq.subtotal >= 0 /\ feeRes.status = 200) =>
        feeRes.total >= feeReq.subtotal

C5_Witness ==
    /\ feeReq = [subtotal |-> 100, deliveryOption |-> "drone"]
    /\ feeRes.total = 138

\* C6 (as claimed): subtotal 100.00 with pickup gives platformFee 5.00,
\* processingFee 3.30, deliveryFee 0 and total 108.30.
C6_PickupHundredAsClaimed ==
    feeReq = [subtotal |-> 10000, deliveryOption |-> "pickup"] =>
        /\ feeRes.platformFee = 500
        /\ feeRes.processingFee = 330
        /\ feeRes.deliveryFee = 0
        /\ feeRes.total = 10830

\* C6 (amended): subtotal 100.00 with pickup gives platformFee 5.00,
\* processingFee 3.20, deliveryFee 0 and total 108.20.
C6_PickupHundred ==
    feeReq = [subtotal |-> 10000, deliveryOption |-> "pickup"] =>
        /\ feeRes.status = 200
        /\ feeRes.platformFee = 500
        /\ feeRes.processingFee = 320
        /\ feeRes.deliveryFee = 0
        /\ feeRes.total = 10820

C6_Witness ==
    /\ feeReq = [subtotal |-> 10000, deliveryOption |-> "pickup"]
    /\ feeRes.status = 200

\* C7 (as claimed): subtotal 50.00 with home delivery gives deliveryFee 4.99,
\* platformFee 2.50, processingFee 1.90 and a total equal to the subtotal plus the
\* three returned fees.
C7_HomeFiftyAsClaimed ==
    feeReq = [subtotal |-> 5000, deliveryOption |-> "home"] =>
        /\ feeRes.deliveryFee = 499
        /\ feeRes.platformFee = 250
        /\ feeRes.processingFee = 190
        /\ feeRes.total = feeRes.subtotal + feeRes.platformFee
                           + feeRes.processingFee + feeRes.deliveryFee

\* C7 (amended): subtotal 50.00 with home delivery gives deliveryFee 4.99,
\* platformFee 2.50, processingFee 1.89 (1.89471 rounded) and total 59.38, which
\* is the subtotal plus the three returned fees.
C7_HomeFifty ==
    feeReq = [subtotal |-> 5000, deliveryOption |-> "home"] =>
        /\ feeRes.status = 200
        /\ feeRes.deliveryFee = 499
        /\ feeRes.platformFee = 250
        /\ feeRes.processingFee = 189
        /\ feeRes.total = 5938
        /\ feeRes.total = feeRes.subtotal + feeRes.platformFee
                           + feeRes.processingFee + feeRes.deliveryFee

C7_Witness ==
    /\ feeReq = [subtotal |-> 5000, deliveryOption |-> "home"]
    /\ feeRes.deliveryFee = 499

\* C8 (as claimed): a fee request with a negative subtotal is answered with a
\* client error (status 400) and no fee calculation.
C8_NegativeSubtotalRejected ==
    (FeeAnswered /\ feeReq.subtotal < 0) => feeRes.status = 400

\* ------------------------------------------------- cart and order claims
\* The order_items rows of order id.
ItemsOf(id) == {i \in orderItems : i.orderId = id}

\* C2 (as claimed): the cart-to-order transition is atomic.  Whenever no POST
\* /api/orders handler is running, every stored order has its order items, and no
\* cart row it was built from is left (a failed step leaves no order behind).
C2_OrderAtomic ==
    (\A u \in Users : pc[u] = "idle") =>
        \A o \in orders :
            /\ ItemsOf(o.id) # {}
            /\ \A i \in ItemsOf(o.id) : \A r \in cart : r.id # i.id[2]

\* C4: when POST /api/orders succeeds, the user's cart is empty, the order has one
\* order item per cart item the handler read, with its product and quantity, each
\* item's totalPrice is its unit price times its quantity, and the order's subtotal
\* is the sum of the items' totalPrice.
C4_OrderRoundTrip ==
    [][\A u \in Users :
        (pc[u] = "addOrderItems" /\ pc'[u] = "idle" /\ resp'.status = 200) =>
            LET items == {i \in orderItems' : i.orderId = order[u]}
                row == {o \in orders' : o.id = order[u]}
            IN /\ cartItems[u] # {}
               /\ {r \in cart' : r.userId = u} = {}
               /\ Cardinality(items) = Cardinality(cartItems[u])
               /\ \A c \in cartItems[u] :
                    \E i \in items : /\ i.id = <<order[u], c.id>>
                                     /\ i.productId = c.productId
                                     /\ i.quantity = c.quantity
                                     /\ i.unitPrice = products[c.productId].price
               /\ \A i \in items : i.totalPrice = i.unitPrice * i.quantity
               /\ Cardinality(row) = 1
               /\ \A o \in row :
                    /\ o.userId = u
                    /\ o.subtotal = SumOver(items, [i \in items |-> i.totalPrice])
      ]_vars

\* An order of two items, one of quantity above 1, has just been answered 200.
C4_Witness ==
    /\ resp.route = "POST /api/orders"
    /\ resp.status = 200
    /\ Cardinality(ItemsOf(resp.orderId)) = 2
    /\ \E i \in ItemsOf(resp.orderId) : i.quantity > 1
    /\ {r \in cart : r.userId = resp.user} = {}

\* C9 (as claimed): a PATCH or DELETE of /api/cart/:id that names a cart row of
\* another user is answered Unauthorized.
C9_ForeignCartRejected ==
    (/\ resp.route \in {"PATCH /api/cart/:id", "DELETE /api/cart/:id"}
     /\ resp.owner \notin {"none", resp.user}) => resp.status \in {401, 403}

\* C10: GET /api/orders/:id carries an order only to the user whose id is the
\* order's userId, GET /api/orders/producer/:producerId carries orders only to the
\* user who owns that producer, and every other caller gets 403 and no order data.
C10_OrdersOnlyToOwner ==
    /\ resp.route = "GET /api/orders/:id" =>
        /\ (resp.status = 200 \/ resp.data # {}) =>
                \E o \in orders : o.id = resp.orderId /\ o.userId = resp.user
        /\ (\E o \in orders : o.id = resp.orderId /\ o.userId # resp.user) =>
                (resp.status = 403 /\ resp.data = {})
    /\ resp.route = "GET /api/orders/producer/:producerId" =>
        /\ (resp.status = 200 \/ resp.data # {}) =>
                /\ resp.producerId \in DOMAIN producers
                /\ producers[resp.producerId].userId = resp.user
        /\ (resp.producerId \notin DOMAIN producers
                \/ producers[resp.producerId].userId # resp.user) =>
                (resp.status = 403 /\ resp.data = {})

\* bob asks for an order of alice and is refused.
C10_Witness ==
    /\ resp.route = "GET /api/orders/:id"
    /\ resp.user = "bob"
    /\ resp.status = 403
    /\ \E o \in orders : o.id = resp.orderId /\ o.userId = "alice"

\* C26 (as claimed): after any sequence of POST /api/cart, PATCH /api/cart/:id and
\* DELETE /api/cart/:id requests, every cart row has quantity >= 1.
C26_QuantityAtLeastOne ==
    \A r \in cart : r.quantity >= 1

\* C27: POST /api/orders for a user whose cart is empty is answered 400 and
\* creates no order and no order items: the handler stops there; and every order
\* that is stored was created from a cart of at least one item.
C27_EmptyCartRejected ==
    [][\A u \in Users :
        /\ (pc[u] = "idle" /\ getCartItems(u) = {}) =>
                /\ pc'[u] = "idle"
                /\ (resp'.route = "POST /api/orders" /\ resp'.user = u) =>
                        /\ resp'.status = 400
                        /\ orders' = orders
                        /\ orderItems' = orderItems
        /\ \A o \in orders' \ orders :
                o.userId = u => (pc[u] = "getCartItems" /\ cartItems[u] # {})
      ]_vars

\* A user who never had a cart row has asked for an order and got 400, and
\* nothing is stored.
C27_Witness ==
    /\ resp.route = "POST /api/orders"
    /\ resp.status = 400
    /\ pc[resp.user] = "idle"
    /\ {r.userId : r \in cart} = Users \ {resp.user}
    /\ nextCartId = 2
    /\ orders = {}
    /\ orderItems = {}

\* C23: under any interleaving of POST /api/orders with the same user's cart
\* requests, every cart row the order's clearCart step deletes is among that
\* order's items with the quantity it had when deleted: nothing put into the cart
\* or changed in it between getCartItems and clearCart is lost unordered.
C23_ClearedRowsAreOrdered ==
    [][\A u \in Users :
          (pc[u] = "addOrderItems" /\ pc'[u] = "idle" /\ resp'.status = 200) =>
              \A r \in cart \ cart' :
                  \E i \in ItemsOf(order[u]) :
                      i.productId = r.productId /\ i.quantity = r.quantity]_vars

\* C24: in every reachable state a user's cart holds at most one row per product,
\* also when two addToCart calls of the same user and product interleave.
C24_OneRowPerProduct ==
    \A r1, r2 \in cart :
        (r1.userId = r2.userId /\ r1.productId = r2.productId) => r1 = r2

\* ------------------------------------------------------------ search claims
\* C3: for every search request that gives an origin (lat, lng) and a radius,
\* including latitude 0, longitude 0 and radius 0, every product returned belongs
\* to a producer whose location is at most radius kilometres from the origin.
C3_WithinRadius ==
    (searchReq.sent /\ searchReq.lat.kind = "num" /\ searchReq.lng.kind = "num"
        /\ searchReq.radius.kind = "num") =>
        \A i \in 1 .. Len(searchRes.rows) :
            LET location == producers[products[searchRes.rows[i]].producerId].location
            IN  /\ ~location.null
                /\ distanceSquared(searchReq.lat.val, searchReq.lng.val, location)
                       <= searchReq.radius.val * searchReq.radius.val

\* C15: for every combination of query, category, tags, origin and radius, every
\* product searchProducts returns has available = true.
C15_OnlyAvailable ==
    \A i \in 1 .. Len(searchRes.rows) : products[searchRes.rows[i]].available

\* A search by name that finds p1, and would find the unavailable p4 of the same
\* name.
C15_Witness ==
    /\ searchReq.sent
    /\ searchReq.q = <<"K", "_">>
    /\ searchRes.rows = <<"p3", "p1">>
    /\ ~products["p4"].available
    /\ products["p4"].name = products["p1"].name

\* The elements of a list.
Elements(list) == {list[i] : i \in 1 .. Len(list)}

\* The product passes every filter the request gives: text, category, at least
\* one of the requested tags, and the radius around the origin.
passesFilters(id, req) ==
    LET product == products[id]
        location == producers[product.producerId].location
    IN  /\ product.available
        /\ req.q # <<>> =>
              \/ ilikeContains(Text(product.name), req.q)
              \/ ilikeContains(product.description, req.q)
        /\ req.category # "" => product.category = req.category
        /\ req.tags # <<>> => product.tags \cap Elements(req.tags) # {}
        /\ (req.lat.kind = "num" /\ req.lng.kind = "num" /\ req.radius.kind = "num") =>
              /\ ~location.null
              /\ distanceSquared(req.lat.val, req.lng.val, location)
                     <= req.radius.val * req.radius.val

\* C16: searchProducts returns a product exactly when it passes every given
\* filter at once, where a non-empty requested tag set is passed exactly by the
\* products whose tags share an element with it, for one tag and for several.
C16_AllFiltersAtOnce ==
    (searchReq.sent /\ searchReq.tags # <<>>) =>
        Elements(searchRes.rows) = {id \in DOMAIN products : passesFilters(id, searchReq)}

\* The location of the producer of a product.
locationOf(id) == producers[products[id].producerId].location

\* C17: the result list is in ascending distance from the origin whenever an
\* origin (lat, lng) is given, latitude 0 and longitude 0 included, and in
\* descending creation time whenever no origin is given.
C17_ResultOrder ==
    LET rows == searchRes.rows
        lat == searchReq.lat
        lng == searchReq.lng
    IN  /\ (searchReq.sent /\ lat.kind = "num" /\ lng.kind = "num") =>
              \A i, j \in 1 .. Len(rows) :
                  (i < j /\ ~locationOf(rows[i]).null /\ ~locationOf(rows[j]).null) =>
                      distanceSquared(lat.val, lng.val, locationOf(rows[i]))
                          <= distanceSquared(lat.val, lng.val, locationOf(rows[j]))
        /\ (searchReq.sent /\ lat.kind = "absent" /\ lng.kind = "absent") =>
              \A i, j \in 1 .. Len(rows) :
                  i < j => products[rows[i]].createdAt >= products[rows[j]].createdAt

\* C18: a search with an empty query, no category, no tags and no location
\* returns every available product, each exactly once, newest first.
C18_EverythingNewestFirst ==
    LET rows == searchRes.rows
    IN  (/\ searchReq.sent
         /\ searchReq.q = <<>> /\ searchReq.category = "" /\ searchReq.tags = <<>>
         /\ searchReq.lat.kind = "absent" /\ searchReq.lng.kind = "absent") =>
            /\ Elements(rows) = {id \in DOMAIN products : products[id].available}
            /\ \A i, j \in 1 .. Len(rows) :
                  i < j => (/\ rows[i] # rows[j]
                            /\ products[rows[i]].createdAt >= products[rows[j]].createdAt)

C18_Witness ==
    /\ searchReq.sent
    /\ searchReq.q = <<>> /\ searchReq.category = "" /\ searchReq.tags = <<>>
    /\ searchReq.lat.kind = "absent" /\ searchReq.lng.kind = "absent"
    /\ searchRes.rows = <<"p3", "p2", "p1">>

\* The characters of part occur in text, next to each other and in order.
isSubstring(part, text) ==
    \E i \in 0 .. Len(text) - Len(part) : SubSeq(text, i + 1, i + Len(part)) = part

\* The query is, case folded, a literal substring of the column.
containsLiterally(column, query) ==
    ~column.null /\ isSubstring(lowerAll(query), lowerAll(column.chars))

\* C19: with a non-empty query, searchProducts returns an available product if
\* and only if the query, compared case-insensitively, is a literal substring of
\* its name or of its description, for every query, those with % or _ included.
C19_LiteralSubstring ==
    (/\ searchReq.sent
     /\ searchReq.q # <<>> /\ searchReq.category = "" /\ searchReq.tags = <<>>
     /\ searchReq.lat.kind = "absent" /\ searchReq.lng.kind = "absent") =>
        Elements(searchRes.rows) =
            {id \in DOMAIN products :
                /\ products[id].available
                /\ \/ containsLiterally(Text(products[id].name), searchReq.q)
                   \/ containsLiterally(products[id].description, searchReq.q)}

\* C21: a search whose lat or lng is malformed (not a number, or only one of the
\* two given) is rejected with a client error and returns no result list; it is
\* never treated as a request without a location.
C21_MalformedCoordinatesRejected ==
    (/\ searchReq.sent
     /\ \/ searchReq.lat.kind = "nan"
        \/ searchReq.lng.kind = "nan"
        \/ (searchReq.lat.kind = "absent") # (searchReq.lng.kind = "absent")) =>
        (searchRes.status \in 400 .. 499 /\ searchRes.rows = <<>>)

\* C22: the fee preview and the search share no mutable state: each leaves
\* producers, products, cart, orders and order items unchanged, and a call with
\* the same inputs against the same stored data returns the same result, whatever
\* requests ran in between.
C22_ReadsRepeat ==
    [][/\ UNCHANGED <<catalogVars, cartVars, orderVars>>
       /\ (FeeAnswered /\ feeReq' = feeReq) => feeRes' = feeRes
       /\ (searchReq.sent /\ searchReq' = searchReq) => searchRes' = searchRes]_vars

\* ----------------------------------------------------------- product claims
\* C11: PATCH and DELETE /api/products/:id change or delete a product only when
\* the caller's producer id equals the product's producerId, a request on another
\* producer's product is rejected, and after any sequence of product requests
\* every product still belongs to exactly one producer, the one of the user who
\* created it.
C11_ProductOfItsCreator ==
    /\ (productRes.route \in {"PATCH /api/products/:id", "DELETE /api/products/:id"}
            /\ productRes.status = 200) => productRes.producer = productRes.owner
    /\ (productRes.route \in {"PATCH /api/products/:id", "DELETE /api/products/:id"}
            /\ productRes.owner # "none" /\ productRes.producer # productRes.owner)
          => productRes.status \in {401, 403}
    /\ \A id \in DOMAIN products :
          /\ products[id].producerId \in DOMAIN producers
          /\ producers[products[id].producerId].userId = creator[id]

\* C20: a request that names a product id that does not exist ends in NotFound
\* (404) and changes no stored data, for GET, PATCH and DELETE /api/products/:id
\* (and so for the order and producer ids of the order reads).
C20_UnknownIdNotFound ==
    [][(/\ productRes' # productRes
        /\ productRes'.route \in {"GET /api/products/:id", "PATCH /api/products/:id",
                                  "DELETE /api/products/:id"}
        /\ productRes'.productId \notin DOMAIN products) =>
            (/\ productRes'.status = 404
             /\ UNCHANGED <<catalogVars, cartVars, orderVars>>)]_vars

\* -------------------------------------------------------- producer claims
\* C30 (as claimed): createProducer stores every producer with location null, no
\* route sets a location afterwards, and so a search that gives an origin and a
\* non-zero radius returns no product of a producer created by POST
\* /api/producers.
C30_NoRouteProducerNearby ==
    /\ \A id \in DOMAIN producers \ DOMAIN SeedProducers : producers[id].location.null
    /\ (/\ searchReq.sent
        /\ searchReq.lat.kind = "num"
        /\ searchReq.lng.kind = "num"
        /\ searchReq.radius.kind = "num"
        /\ searchReq.radius.val # 0) =>
            \A i \in 1 .. Len(searchRes.rows) :
                products[searchRes.rows[i]].producerId \in DOMAIN SeedProducers

\* ---------------------------------------------------------- payment claims
\* C25: the amount of the payment intent created for an order id equals that
\* order's stored total in cents, for every sequence of cart changes, fee previews
\* and order creations: POST /api/create-payment-intent never charges an amount
\* different from the total of the order it names.
C25_IntentAmountIsOrderTotal ==
    \A p \in paymentIntents :
        \A o \in orders : o.id = p.orderId => p.amount = o.total

\* C29: every order is created with status pending and a null
\* stripePaymentIntentId, and no route changes either afterwards: in every
\* reachable state, after a successful payment too, every order is pending.
C29_OrdersStayPending ==
    \A o \in orders : o.status = "pending" /\ o.stripePaymentIntentId = "null"

\* The order has been paid at Stripe.
C29_Witness ==
    \E o \in orders : \E p \in paymentIntents :
        /\ p.orderId = o.id
        /\ p.amount = o.total
        /\ p.status = "succeeded"
        /\ o.status = "pending"

\* --------------------------------------------------------- checkout claims
\* C12: when deliveryOption is not one of pickup, home, farmers-market (a missing
\* value included), the fee calculation does not error, uses deliveryFee 0 and
\* returns a fee calculation; POST /api/orders does the same and stores the
\* unrecognized option with deliveryFee 0.
C12_UnrecognizedOptionZeroFee ==
    [][/\ (feeReq'.deliveryOption \notin DOMAIN deliveryFees \cup {"unsent"}) =>
              (feeRes'.status = 200 /\ feeRes'.deliveryFee = 0)
       /\ \A u \in Users :
              (/\ pc[u] = "getCartItems"
               /\ pc'[u] # "getCartItems"
               /\ deliveryOption[u] \notin DOMAIN deliveryFees) =>
                  \E o \in orders' \ orders :
                      /\ o.userId = u
                      /\ o.deliveryOption = deliveryOption[u]
                      /\ o.deliveryFee = 0]_vars

\* The fee the specification gives for a recognized option, in cents.
FlatFee(option) ==
    CASE option = "pickup" -> 0
      [] option = "home" -> 499
      [] option = "farmers-market" -> 199

\* C13: the delivery fee of a delivery option is fixed, pickup 0, home 4.99 and
\* farmers-market 1.99, in the fee preview and in the stored order alike,
\* whatever the subtotal.
C13_FlatDeliveryFee ==
    /\ feeReq.deliveryOption \in {"pickup", "home", "farmers-market"} =>
          (feeRes.status = 200 /\ feeRes.deliveryFee = FlatFee(feeReq.deliveryOption))
    /\ \A o \in orders :
          o.deliveryOption \in {"pickup", "home", "farmers-market"} =>
              o.deliveryFee = FlatFee(o.deliveryOption)

C13_Witness ==
    /\ feeReq = [subtotal |-> 175, deliveryOption |-> "farmers-market"]
    /\ feeRes.deliveryFee = 199
    /\ \E o \in orders : o.deliveryOption = "home" /\ o.deliveryFee = 499 /\ o.subtotal = 125

RoundHalfUp(mills) == (mills + 500) \div 1000

\* C14: for every subtotal >= 0 of at most 2 decimals and every delivery fee of
\* the table, platformFee is subtotal x 0.05 and processingFee is (subtotal +
\* deliveryFee) x 0.029 + 0.30, each rounded half-up to 2 decimals in exact
\* decimal arithmetic.
C14_ExactHalfUp ==
    (FeeAnswered /\ feeReq.subtotal >= 0 /\ feeReq.deliveryOption \in DOMAIN deliveryFees) =>
        /\ feeRes.platformFee = RoundHalfUp(feeReq.subtotal * 50)
        /\ feeRes.processingFee =
              RoundHalfUp((feeReq.subtotal + feeRes.deliveryFee) * 29 + 30000)

====
